---------------------------- MODULE Spec2Model ----------------------------
(***************************************************************************)
(* A model of the music-monitor repository:                                *)
(*   src/unified_monitor.py    UnifiedMonitorSystem and its three monitors *)
(*   src/countdown_monitor.py  the stand-alone countdown polling loop      *)
(*                                                                         *)
(* Python values are tagged records [t, v]; a Python str is a sequence of  *)
(* atoms (its "characters"), a JSON text is a sequence of atoms as well.   *)
(* A dict is the sequence of its <<key, value>> pairs in insertion order.  *)
(***************************************************************************)
EXTENDS Integers, Sequences, FiniteSets, TLC

(***************************************************************************)
(* Bounds of the model.                                                    *)
(***************************************************************************)
MaxCycles == 2      \* polling cycles explored per run
MaxDom == 2         \* nodes of a fetched store page
MaxFeed == 2        \* events in one feed response

(***************************************************************************)
(* Python values.                                                          *)
(***************************************************************************)
PyNone == [t |-> "none", v |-> <<>>]
PyInt(n) == [t |-> "int", v |-> n]
PyStr(s) == [t |-> "str", v |-> s]
PyList(items) == [t |-> "list", v |-> items]
PyDict(pairs) == [t |-> "dict", v |-> pairs]
S(a) == PyStr(<<a>>)
EmptyDict == PyDict(<<>>)

\* bool(x) as `if x:` / `if not x:` evaluate it
Truthy(x) ==
    CASE x.t = "none" -> FALSE
      [] x.t = "int" -> x.v # 0
      [] OTHER -> Len(x.v) > 0

RECURSIVE FindKey(_, _, _)
FindKey(pairs, k, i) ==
    IF i > Len(pairs) THEN 0
    ELSE IF pairs[i][1] = k THEN i
    ELSE FindKey(pairs, k, i + 1)

HasKey(d, k) == FindKey(d.v, k, 1) # 0

\* dict.get(k, default)
DictGet(d, k, default) ==
    LET i == FindKey(d.v, k, 1)
    IN IF i = 0 THEN default ELSE d.v[i][2]

\* d[k] = val : an existing key keeps its place, a new key is appended
DictSet(d, k, val) ==
    LET i == FindKey(d.v, k, 1)
    IN IF i = 0 THEN PyDict(Append(d.v, <<k, val>>))
       ELSE PyDict([d.v EXCEPT ![i] = <<k, val>>])

(***************************************************************************)
(* json.dumps                                                              *)
(***************************************************************************)
Q == "\""
BS == "\\"
NL == "\n"
SP == " "
IND == "  "

\* the concatenation of a sequence of sequences
RECURSIVE Flatten(_)
Flatten(ss) ==
    IF Len(ss) = 0 THEN <<>>
    ELSE IF Len(ss) = 1 THEN ss[1]
    ELSE LET h == Len(ss) \div 2
         IN Flatten(SubSeq(ss, 1, h)) \o Flatten(SubSeq(ss, h + 1, Len(ss)))

EscapeAtom(a) ==
    IF a = Q THEN <<BS, Q>>
    ELSE IF a = BS THEN <<BS, BS>>
    ELSE IF a = NL THEN <<BS, "n">>
    ELSE <<a>>

Escape(s) == Flatten([i \in 1..Len(s) |-> EscapeAtom(s[i])])

\* keys in ascending order, as sorted() orders the str keys the program uses
KeyOrder == <<"attributes", "class", "content", "count", "countdowns",
              "data-countdown", "hash", "id", "parent_tag", "tag", "text",
              "timestamp", "type">>

KeyRank(k) == CHOOSE i \in 1..Len(KeyOrder) : <<KeyOrder[i]>> = k

RECURSIVE InsertPair(_, _)
InsertPair(p, sorted) ==
    IF sorted = <<>> THEN <<p>>
    ELSE IF KeyRank(p[1]) < KeyRank(Head(sorted)[1]) THEN <<p>> \o sorted
    ELSE <<Head(sorted)>> \o InsertPair(p, Tail(sorted))

RECURSIVE SortPairs(_)
SortPairs(pairs) ==
    IF pairs = <<>> THEN <<>>
    ELSE InsertPair(Head(pairs), SortPairs(Tail(pairs)))

Repeat(a, n) == [i \in 1..n |-> a]

\* the break written before an item (depth d) when indent=2, nothing otherwise
Break(indent, d) == IF indent THEN <<NL>> \o Repeat(IND, d) ELSE <<>>

\* the item separator: "," with indent, ", " without
ItemSep(indent) == IF indent THEN <<",">> ELSE <<",", SP>>

RECURSIVE Dump(_, _, _, _)
Dump(x, sortKeys, indent, d) ==
    CASE x.t = "none" -> <<"null">>
      [] x.t = "int" -> <<ToString(x.v)>>
      [] x.t = "str" -> <<Q>> \o Escape(x.v) \o <<Q>>
      [] x.t = "list" ->
           IF x.v = <<>> THEN <<"[", "]">>
           ELSE <<"[">>
                \o Flatten([i \in 1..Len(x.v) |->
                      (IF i > 1 THEN ItemSep(indent) ELSE <<>>)
                      \o Break(indent, d + 1)
                      \o Dump(x.v[i], sortKeys, indent, d + 1)])
                \o Break(indent, d) \o <<"]">>
      [] x.t = "dict" ->
           IF x.v = <<>> THEN <<"{", "}">>
           ELSE LET ps == IF sortKeys THEN SortPairs(x.v) ELSE x.v
                IN <<"{">>
                   \o Flatten([i \in 1..Len(ps) |->
                         (IF i > 1 THEN ItemSep(indent) ELSE <<>>)
                         \o Break(indent, d + 1)
                         \o <<Q>> \o Escape(ps[i][1]) \o <<Q, ":", SP>>
                         \o Dump(ps[i][2], sortKeys, indent, d + 1)])
                   \o Break(indent, d) \o <<"}">>

\* json.dumps(x, sort_keys=True)
JsonDumpsSorted(x) == Dump(x, TRUE, FALSE, 0)

\* json.dumps(x, indent=2)
JsonDumpsIndent(x) == Dump(x, FALSE, TRUE, 0)

(***************************************************************************)
(* json.loads: a recursive-descent parse of the text; ok = FALSE stands    *)
(* for the ValueError it raises.                                           *)
(***************************************************************************)
IntLiterals == 0..(2 * MaxDom + MaxCycles + MaxFeed)
IsIntAtom(a) == \E n \in IntLiterals : ToString(n) = a
IntOfAtom(a) == CHOOSE n \in IntLiterals : ToString(n) = a

ParseFail == [ok |-> FALSE, val |-> PyNone, nxt |-> 0]
ParseOk(val, nxt) == [ok |-> TRUE, val |-> val, nxt |-> nxt]

RECURSIVE SkipWs(_, _)
SkipWs(txt, i) ==
    IF i <= Len(txt) /\ txt[i] \in {SP, NL, IND} THEN SkipWs(txt, i + 1) ELSE i

\* the number of backslashes directly before position j, counted back to lo
BsRun(txt, lo, j) ==
    CHOOSE k \in 0..(j - lo) :
        /\ \A m \in (j - k)..(j - 1) : txt[m] = BS
        /\ k = j - lo \/ txt[j - k - 1] # BS

\* position p holds the backslash that opens an escape
EscLead(txt, lo, p) == txt[p] = BS /\ BsRun(txt, lo, p) % 2 = 0

Unescape(a) == IF a = "n" THEN NL ELSE a

\* the body of a string literal, after its opening quote at lo - 1: it runs
\* to the first quote no backslash escapes; a raw line break and an unknown
\* escape are errors
ScanStr(txt, lo, acc) ==
    LET closers == {j \in lo..Len(txt) : txt[j] = Q /\ BsRun(txt, lo, j) % 2 = 0}
    IN IF closers = {} THEN ParseFail
       ELSE LET hi == CHOOSE j \in closers : \A c \in closers : j <= c
                bad == \E p \in lo..(hi - 1) :
                          \/ txt[p] = NL
                          \/ EscLead(txt, lo, p) /\ txt[p + 1] \notin {Q, BS, "n"}
                kept == SelectSeq([i \in 1..(hi - lo) |-> lo + i - 1],
                                  LAMBDA p : ~EscLead(txt, lo, p))
            IN IF bad THEN ParseFail
               ELSE ParseOk(PyStr(acc \o [i \in 1..Len(kept) |->
                                IF kept[i] > lo /\ EscLead(txt, lo, kept[i] - 1)
                                THEN Unescape(txt[kept[i]]) ELSE txt[kept[i]]]),
                            hi + 1)

RECURSIVE ParseValue(_, _), ParseItems(_, _, _), ParsePairs(_, _, _)
ParseValue(txt, i0) ==
    LET i == SkipWs(txt, i0)
    IN IF i > Len(txt) THEN ParseFail
       ELSE IF txt[i] = "null" THEN ParseOk(PyNone, i + 1)
       ELSE IF IsIntAtom(txt[i]) THEN ParseOk(PyInt(IntOfAtom(txt[i])), i + 1)
       ELSE IF txt[i] = Q THEN ScanStr(txt, i + 1, <<>>)
       ELSE IF txt[i] = "[" THEN
           LET j == SkipWs(txt, i + 1)
           IN IF j <= Len(txt) /\ txt[j] = "]" THEN ParseOk(PyList(<<>>), j + 1)
              ELSE ParseItems(txt, i + 1, <<>>)
       ELSE IF txt[i] = "{" THEN
           LET j == SkipWs(txt, i + 1)
           IN IF j <= Len(txt) /\ txt[j] = "}" THEN ParseOk(PyDict(<<>>), j + 1)
              ELSE ParsePairs(txt, i + 1, <<>>)
       ELSE ParseFail

\* the items of a list, up to and including its "]"
ParseItems(txt, i, acc) ==
    LET r == ParseValue(txt, i)
        j == SkipWs(txt, r.nxt)
    IN IF ~r.ok \/ j > Len(txt) THEN ParseFail
       ELSE IF txt[j] = "," THEN ParseItems(txt, j + 1, Append(acc, r.val))
       ELSE IF txt[j] = "]" THEN ParseOk(PyList(Append(acc, r.val)), j + 1)
       ELSE ParseFail

\* the members of an object, up to and including its "}"; a repeated key
\* keeps its first place and its last value, as in a Python dict
ParsePairs(txt, i0, acc) ==
    LET i == SkipWs(txt, i0)
    IN IF i > Len(txt) \/ txt[i] # Q THEN ParseFail
       ELSE LET k == ScanStr(txt, i + 1, <<>>)
                c == SkipWs(txt, k.nxt)
            IN IF ~k.ok \/ c > Len(txt) \/ txt[c] # ":" THEN ParseFail
               ELSE LET r == ParseValue(txt, c + 1)
                        j == SkipWs(txt, r.nxt)
                        more == DictSet(PyDict(acc), k.val.v, r.val).v
                    IN IF ~r.ok \/ j > Len(txt) THEN ParseFail
                       ELSE IF txt[j] = "," THEN ParsePairs(txt, j + 1, more)
                       ELSE IF txt[j] = "}" THEN ParseOk(PyDict(more), j + 1)
                       ELSE ParseFail

\* json.loads(text): the value, or ok = FALSE (empty text, bad syntax,
\* data after the value)
JsonLoads(txt) ==
    LET r == ParseValue(txt, 1)
    IN IF r.ok /\ SkipWs(txt, r.nxt) > Len(txt) THEN r ELSE ParseFail

(***************************************************************************)
(* State.                                                                  *)
(***************************************************************************)
VARIABLES
    env,                  \* which of the four SECRET_* credentials are set
    twilio_enabled,       \* self.twilio_enabled
    disk,                 \* the state files, by monitor name
    pc,                   \* position of the running coroutine
    check_count,          \* check_count of the polling loop; also the clock
    previous_countdowns,  \* countdown_monitor.py: self.previous_countdowns
    countdowns,           \* countdown_monitor.py: result of this cycle's fetch
    sent,                 \* send_sms calls of the current cycle (startup: cycle 0)
    log,                  \* log lines of the current cycle
    saves,                \* documents given to save_state in the current cycle
    pre,                  \* memory and file as they were when the cycle began
    ended,                \* the hash dropped by the last "ended" transition, if
                          \* no countdown was stored since
    monitors,             \* unified_monitor.py: self.monitors, by name
    previous_state,       \* unified_monitor.py: previous_state of each monitor
    idx,                  \* the monitor the for loop of run() is at
    ai,                   \* the artist the for loop of check() is at
    all_new_events,       \* check(): all_new_events
    result,               \* run(): result of the current monitor's check
    fetched,              \* the responses the current check has received
    new_ids,              \* the event ids behind the records of all_new_events
    checked,              \* the monitors whose check() has returned in this cycle
    failures,             \* the monitors that raised or failed to fetch in this cycle
    ts_last,              \* the result of the Taylor Swift check of the cycle before
    last_done             \* per monitor and artist, the ids fetched by the last
                          \* check before the current one that ran to its end
                          \* with an answer for the artist

cdVars == <<previous_countdowns, countdowns, ended>>
uVars == <<monitors, previous_state, idx, ai, all_new_events, result, fetched, new_ids,
           checked, failures, ts_last, last_done>>
vars == <<env, twilio_enabled, disk, pc, check_count, previous_countdowns,
          countdowns, sent, log, saves, pre, ended, monitors, previous_state,
          idx, ai, all_new_events, result, fetched, new_ids, checked, failures,
          ts_last, last_done>>

Creds == {"SECRET_TWILIO_ACCOUNT_SID", "SECRET_TWILIO_AUTH_TOKEN",
          "SECRET_TWILIO_PHONE_NUMBER", "SECRET_YOUR_PHONE_NUMBER"}

\* mutant: one credential is enough
TwilioEnabledAny(e) == \E c \in Creds : e[c]

\* all([os.getenv(...), ...]) over the four credentials
TwilioEnabled(e) == \A c \in Creds : e[c]

AllSet == [c \in Creds |-> TRUE]
\* the environments a polling run is explored under
RunEnvs == {AllSet, [AllSet EXCEPT !["SECRET_TWILIO_AUTH_TOKEN"] = FALSE]}

(***************************************************************************)
(* StateStore: load_state / save_state (the same code in both files).      *)
(***************************************************************************)
NoFile == [exists |-> FALSE, text |-> <<>>]
FileOf(text) == [exists |-> TRUE, text |-> text]

ReadOutcomes == {"ok", "read_fails"}
SaveOutcomes == {"ok", "open_fails", "write_fails"}

\* load_state: the parsed file, {} when there is none or the read or the
\* parse raises
LoadState(file, outcome) ==
    IF ~file.exists THEN EmptyDict
    ELSE IF outcome = "ok" /\ JsonLoads(file.text).ok THEN JsonLoads(file.text).val
    ELSE EmptyDict

\* mutant: the file is opened for appending
SaveStateAppends(file, state, outcome) ==
    CASE outcome = "ok" ->
           [file |-> FileOf(file.text \o JsonDumpsIndent(state)), logs |-> <<>>]
      [] OTHER ->
           [file |-> file, logs |-> <<"Error saving state">>]

\* save_state: open(..., "w") truncates the file, write() stores the dump;
\* an exception of either is logged and swallowed
SaveState(file, state, outcome) ==
    CASE outcome = "ok" ->
           [file |-> FileOf(JsonDumpsIndent(state)), logs |-> <<>>]
      [] outcome = "open_fails" ->
           [file |-> file, logs |-> <<"Error saving state">>]
      [] outcome = "write_fails" ->
           [file |-> FileOf(<<>>), logs |-> <<"Error saving state">>]

(***************************************************************************)
(* Notifier: send_sms.                                                     *)
(***************************************************************************)
SendOutcomes == {"ok", "raises"}

\* countdown_monitor.py send_sms: gated by self.twilio_enabled
CdSendSms(enabled, outcome) ==
    IF ~enabled THEN
        [ret |-> FALSE, contacted |-> FALSE, raised |-> FALSE, logs |-> <<>>]
    ELSE IF outcome = "ok" THEN
        [ret |-> TRUE, contacted |-> TRUE, raised |-> FALSE,
         logs |-> <<"SMS sent successfully">>]
    ELSE
        [ret |-> FALSE, contacted |-> TRUE, raised |-> FALSE,
         logs |-> <<"Failed to send SMS">>]

\* the record kept of one send_sms call
SmsRecord(by, kind, outcome, r) ==
    [by |-> by, kind |-> kind, outcome |-> IF r.contacted THEN outcome ELSE "none",
     ret |-> r.ret, contacted |-> r.contacted, raised |-> r.raised]

(***************************************************************************)
(* countdown_monitor.py: check_for_countdown.                              *)
(* A page is a sequence of nodes in document order.                        *)
(***************************************************************************)
Node(kind, tag, class, id, data, text) ==
    [kind |-> kind, tag |-> tag, class |-> class, id |-> id, data |-> data,
     text |-> text]
NodeTimer == Node("element", "div", PyList(<<S("countdown")>>), PyNone, PyNone,
                  <<"10:00">>)
NodeClock == Node("element", "span", PyList(<<S("clock")>>), S("timer"), PyNone,
                  <<"soon">>)
NodeData == Node("element", "div", PyNone, PyNone, S("2026-12-13"), <<>>)
NodeText == Node("text", "p", PyNone, PyNone, PyNone, <<"drops in", NL, "3 days">>)
NodeScript == Node("script", "script", PyNone, PyNone, PyNone,
                   <<"countdown(", Q, "2026-12-13", Q, ")">>)
NodePlain == Node("element", "p", PyNone, PyNone, PyNone, <<"hello">>)
Nodes == {NodeTimer, NodeClock, NodeData, NodeText, NodeScript, NodePlain}

RECURSIVE SeqsUpTo(_, _)
SeqsUpTo(set, n) ==
    IF n = 0 THEN {<<>>}
    ELSE LET shorter == SeqsUpTo(set, n - 1)
         IN shorter \cup {Append(q, x) : q \in {r \in shorter : Len(r) = n - 1}, x \in set}

Doms == SeqsUpTo(Nodes, MaxDom)

\* what the GET of the store page yields: a page, or an exception (timeout,
\* DNS, raise_for_status)
Page(dom) == [ok |-> TRUE, page |-> dom]
FetchError == [ok |-> FALSE, page |-> <<>>]
Fetches == {Page(d) : d \in Doms} \cup {FetchError}

\* re.compile(r'countdown|timer|clock', re.I) against a class list or an id
MatchesName(x) == x.t # "none"

\* the script and text patterns of strategies 2 and 4
MatchesScript(n) == n.kind = "script"
MatchesText(n) == n.kind = "text"

TextLimit == 200
ScriptLimit == 500
\* s[:n]
Take(s, n) == SubSeq(s, 1, IF Len(s) < n THEN Len(s) ELSE n)

ScriptRecord(n) ==
    PyDict(<< <<<<"type">>, S("script")>>,
              <<<<"content">>, PyStr(Take(n.text, ScriptLimit))>> >>)

ElementRecord(n) ==
    PyDict(<< <<<<"type">>, S("element_class")>>, <<<<"tag">>, S(n.tag)>>,
              <<<<"class">>, n.class>>, <<<<"id">>, n.id>>,
              <<<<"text">>, PyStr(Take(n.text, TextLimit))>> >>)

TextRecord(n) ==
    PyDict(<< <<<<"type">>, S("text_match")>>,
              <<<<"text">>, PyStr(Take(n.text, TextLimit))>>,
              <<<<"parent_tag">>, S(n.tag)>> >>)

DataRecord(n) ==
    PyDict(<< <<<<"type">>, S("data_attribute")>>, <<<<"tag">>, S(n.tag)>>,
              <<<<"attributes">>, PyDict(<< <<<<"data-countdown">>, n.data>> >>)>>,
              <<<<"text">>, PyStr(Take(n.text, TextLimit))>> >>)

IsClassHit(n) == n.kind = "element" /\ MatchesName(n.class)
IsIdHit(n) == n.kind = "element" /\ MatchesName(n.id)
IsDataHit(n) == n.kind = "element" /\ n.data.t # "none"

MapSeq(f(_), q) == [i \in 1..Len(q) |-> f(q[i])]

\* check_for_countdown on a fetched page: scripts, then class hits followed
\* by id hits, then text hits, then data-attribute hits; None when the
\* fetch raised
CheckForCountdown(fetch) ==
    IF ~fetch.ok THEN PyNone
    ELSE PyList(MapSeq(ScriptRecord, SelectSeq(fetch.page, MatchesScript))
                \o MapSeq(ElementRecord, SelectSeq(fetch.page, IsClassHit))
                \o MapSeq(ElementRecord, SelectSeq(fetch.page, IsIdHit))
                \o MapSeq(TextRecord, SelectSeq(fetch.page, MatchesText))
                \o MapSeq(DataRecord, SelectSeq(fetch.page, IsDataHit)))

\* datetime.now().isoformat() at clock value n
Isoformat(n) == PyStr(<<"T", ToString(n)>>)

(***************************************************************************)
(* countdown_monitor.py: initialize() and monitor().                       *)
(***************************************************************************)
CdFile == "countdown"
FileNames == {CdFile, "taylor_swift", "bandsintown", "ticketmaster"}

\* the state document written when a new countdown is detected
CountdownState(found, now) ==
    PyDict(<< <<<<"hash">>, PyStr(JsonDumpsSorted(found))>>,
              <<<<"timestamp">>, Isoformat(now)>>,
              <<<<"count">>, PyInt(Len(found.v))>> >>)

\* the lists with the elements of q in another order (q among them)
Reorderings(q) == {[i \in 1..Len(q) |-> q[f[i]]] : f \in Permutations(1..Len(q))}

\* mutant: the change test does not look at the order of the elements
CdBranchAnyOrder(found, previous) ==
    IF found.t = "none" THEN "failed"
    ELSE IF Len(found.v) > 0 THEN
        IF \A q \in Reorderings(found.v) :
              PyStr(JsonDumpsSorted(PyList(q))) # DictGet(previous, <<"hash">>, PyNone)
        THEN "new" ELSE "same"
    ELSE IF Truthy(DictGet(previous, <<"hash">>, PyNone)) THEN "ended"
    ELSE "none"

\* mutant: the change test compares the element count, not the serialization
CdBranchByCount(found, previous) ==
    IF found.t = "none" THEN "failed"
    ELSE IF Len(found.v) > 0 THEN
        IF PyInt(Len(found.v)) # DictGet(previous, <<"count">>, PyNone)
        THEN "new" ELSE "same"
    ELSE IF Truthy(DictGet(previous, <<"hash">>, PyNone)) THEN "ended"
    ELSE "none"

\* mutant: every non-empty result counts as new, the stored hash is not read
CdBranchAlwaysNew(found, previous) ==
    IF found.t = "none" THEN "failed"
    ELSE IF Len(found.v) > 0 THEN "new"
    ELSE IF Truthy(DictGet(previous, <<"hash">>, PyNone)) THEN "ended"
    ELSE "none"

\* mutant: a failed fetch is taken for a page without countdown
CdBranchFailedIsEmpty(found, previous) ==
    IF found.t # "none" /\ Len(found.v) > 0 THEN
        IF PyStr(JsonDumpsSorted(found)) # DictGet(previous, <<"hash">>, PyNone)
        THEN "new" ELSE "same"
    ELSE IF Truthy(DictGet(previous, <<"hash">>, PyNone)) THEN "ended"
    ELSE "none"

\* the decision of the loop body on a fetch result: which branch runs
CdBranch(found, previous) ==
    IF found.t = "none" THEN "failed"
    ELSE IF Len(found.v) > 0 THEN
        IF PyStr(JsonDumpsSorted(found)) # DictGet(previous, <<"hash">>, PyNone)
        THEN "new" ELSE "same"
    ELSE IF Truthy(DictGet(previous, <<"hash">>, PyNone)) THEN "ended"
    ELSE "none"

\* files a previous run of the script can have left behind
CdInitFiles ==
    {NoFile, FileOf(<<>>), FileOf(JsonDumpsIndent(EmptyDict))}
    \cup {FileOf(JsonDumpsIndent(CountdownState(CheckForCountdown(Page(d)), 0))) :
            d \in {dd \in Doms : Len(dd) = 1 /\ Len(CheckForCountdown(Page(dd)).v) > 0}}

CdInit ==
    /\ env \in RunEnvs
    /\ twilio_enabled = TwilioEnabled(env)
    /\ \E f \in CdInitFiles : disk = [n \in FileNames |-> IF n = CdFile THEN f ELSE NoFile]
    /\ pc = "start"
    /\ check_count = 0
    /\ previous_countdowns = PyNone
    /\ countdowns = PyNone
    /\ sent = <<>>
    /\ log = <<>>
    /\ saves = <<>>
    /\ pre = [mem |-> PyNone, file |-> NoFile, ended |-> PyNone]
    /\ ended = PyNone
    /\ monitors = <<>>
    /\ previous_state = <<>>
    /\ idx = 0
    /\ ai = 0
    /\ all_new_events = <<>>
    /\ result = PyNone
    /\ fetched = <<>>
    /\ new_ids = <<>>
    /\ checked = <<>>
    /\ failures = <<>>
    /\ ts_last = PyNone
    /\ last_done = <<>>

\* asyncio.run(monitor.initialize()), then monitor() up to the loop: the
\* startup message when Twilio is enabled
CdStart(readOutcome, sendOutcome) ==
    /\ pc = "start"
    /\ previous_countdowns' = LoadState(disk[CdFile], readOutcome)
    /\ LET r == CdSendSms(twilio_enabled, sendOutcome)
       IN /\ sent' = IF twilio_enabled
                     THEN <<SmsRecord(CdFile, "startup", sendOutcome, r)>>
                     ELSE <<>>
          /\ log' = <<"Starting">> \o (IF twilio_enabled THEN r.logs ELSE <<>>)
    /\ pc' = "fetch"
    /\ UNCHANGED uVars
    /\ UNCHANGED <<env, twilio_enabled, disk, check_count, countdowns, saves, pre,
                   ended>>

\* check_count += 1; countdowns = await self.check_for_countdown()
CdFetch(fetch) ==
    /\ pc = "fetch"
    /\ check_count < MaxCycles
    /\ check_count' = check_count + 1
    /\ countdowns' = CheckForCountdown(fetch)
    /\ pre' = [mem |-> previous_countdowns, file |-> disk[CdFile], ended |-> ended]
    /\ sent' = <<>>
    /\ saves' = <<>>
    /\ log' = <<"Checking">> \o (IF fetch.ok THEN <<>> ELSE <<"Error checking website">>)
    /\ pc' = "compare"
    /\ UNCHANGED uVars
    /\ UNCHANGED <<env, twilio_enabled, disk, previous_countdowns, ended>>

\* mutant: the state is replaced only when the alert went out
CdNewKeepsStateOnFailure(sendOutcome) ==
    /\ pc = "compare"
    /\ CdBranch(countdowns, previous_countdowns) = "new"
    /\ LET r == CdSendSms(twilio_enabled, sendOutcome)
       IN /\ sent' = Append(sent, SmsRecord(CdFile, "new_countdown", sendOutcome, r))
          /\ log' = log \o <<"NEW COUNTDOWN DETECTED">> \o r.logs
          /\ previous_countdowns' = IF r.ret THEN CountdownState(countdowns, check_count)
                                    ELSE previous_countdowns
          /\ ended' = IF r.ret THEN PyNone ELSE ended
    /\ pc' = "save"
    /\ UNCHANGED uVars
    /\ UNCHANGED <<env, twilio_enabled, disk, check_count, countdowns, saves, pre>>

\* a changed, non-empty result: the alert is sent, then the state replaced
CdNew(sendOutcome) ==
    /\ pc = "compare"
    /\ CdBranch(countdowns, previous_countdowns) = "new"
    /\ LET r == CdSendSms(twilio_enabled, sendOutcome)
       IN /\ sent' = Append(sent, SmsRecord(CdFile, "new_countdown", sendOutcome, r))
          /\ log' = log \o <<"NEW COUNTDOWN DETECTED">> \o r.logs
    /\ previous_countdowns' = CountdownState(countdowns, check_count)
    /\ ended' = PyNone
    /\ pc' = "save"
    /\ UNCHANGED uVars
    /\ UNCHANGED <<env, twilio_enabled, disk, check_count, countdowns, saves, pre>>

\* mutant: the "ended" branch sends its message and keeps the stored state
CdEndedKeepsState(sendOutcome) ==
    /\ pc = "compare"
    /\ CdBranch(countdowns, previous_countdowns) = "ended"
    /\ LET r == CdSendSms(twilio_enabled, sendOutcome)
       IN /\ sent' = Append(sent, SmsRecord(CdFile, "ended", sendOutcome, r))
          /\ log' = log \o <<"No countdown detected (countdown may have ended)">> \o r.logs
    /\ pc' = "save"
    /\ UNCHANGED uVars
    /\ UNCHANGED <<env, twilio_enabled, disk, check_count, countdowns, saves, pre,
                   previous_countdowns, ended>>

\* an empty result while a hash is stored: the "ended" message, state {}
CdEnded(sendOutcome) ==
    /\ pc = "compare"
    /\ CdBranch(countdowns, previous_countdowns) = "ended"
    /\ LET r == CdSendSms(twilio_enabled, sendOutcome)
       IN /\ sent' = Append(sent, SmsRecord(CdFile, "ended", sendOutcome, r))
          /\ log' = log \o <<"No countdown detected (countdown may have ended)">> \o r.logs
    /\ previous_countdowns' = EmptyDict
    /\ ended' = DictGet(previous_countdowns, <<"hash">>, PyNone)
    /\ pc' = "save"
    /\ UNCHANGED uVars
    /\ UNCHANGED <<env, twilio_enabled, disk, check_count, countdowns, saves, pre>>

\* await self.save_state(self.previous_countdowns)
CdSave(saveOutcome) ==
    /\ pc = "save"
    /\ LET w == SaveState(disk[CdFile], previous_countdowns, saveOutcome)
       IN /\ disk' = [disk EXCEPT ![CdFile] = w.file]
          /\ log' = log \o w.logs
    /\ saves' = Append(saves, previous_countdowns)
    /\ pc' = "sleep"
    /\ UNCHANGED uVars
    /\ UNCHANGED <<env, twilio_enabled, check_count, previous_countdowns, countdowns,
                   sent, pre, ended>>

\* the branches that only log: unchanged countdown, nothing found, failed fetch
CdQuiet ==
    /\ pc = "compare"
    /\ CdBranch(countdowns, previous_countdowns) \in {"same", "none", "failed"}
    /\ log' = log \o (CASE CdBranch(countdowns, previous_countdowns) = "same" ->
                             <<"Countdown still active">>
                        [] CdBranch(countdowns, previous_countdowns) = "none" ->
                             <<"No countdown detected">>
                        [] OTHER -> <<>>)
    /\ pc' = "sleep"
    /\ UNCHANGED uVars
    /\ UNCHANGED <<env, twilio_enabled, disk, check_count, previous_countdowns,
                   countdowns, sent, saves, pre, ended>>

\* await asyncio.sleep(self.check_interval), back to the head of the loop
CdSleep ==
    /\ pc = "sleep"
    /\ check_count < MaxCycles
    /\ log' = Append(log, "Sleeping")
    /\ pc' = "fetch"
    /\ UNCHANGED uVars
    /\ UNCHANGED <<env, twilio_enabled, disk, check_count, previous_countdowns,
                   countdowns, sent, saves, pre, ended>>

CdNext ==
    \/ \E ro \in ReadOutcomes, so \in SendOutcomes : CdStart(ro, so)
    \/ \E f \in Fetches : CdFetch(f)
    \/ \E so \in SendOutcomes : CdNew(so)
    \/ \E so \in SendOutcomes : CdEnded(so)
    \/ \E wo \in SaveOutcomes : CdSave(wo)
    \/ CdQuiet
    \/ CdSleep

SpecCountdown == CdInit /\ [][CdNext]_vars

(***************************************************************************)
(* unified_monitor.py: configuration and construction.                     *)
(***************************************************************************)
TS == "taylor_swift"
BIT == "bandsintown"
TM == "ticketmaster"

Artist1 == <<"Taylor Swift">>
Artist2 == <<"The 1975">>

\* load_config(): the built-in defaults, and a configuration file that also
\* enables Ticketmaster
DefaultConfig ==
    [taylor_swift_enabled |-> TRUE, bandsintown_enabled |-> TRUE,
     bandsintown_artists |-> <<Artist1, Artist2>>,
     ticketmaster_enabled |-> FALSE, ticketmaster_artists |-> <<>>]
\* the configurations of the whole system: the default monitors, and all three
Configs ==
    {[DefaultConfig EXCEPT !.bandsintown_artists = <<Artist1>>],
     [DefaultConfig EXCEPT !.bandsintown_artists = <<Artist1>>,
                           !.ticketmaster_enabled = TRUE,
                           !.ticketmaster_artists = <<Artist1>>]}

MonitorOf(name, artists) == [name |-> name, artists |-> artists]

\* the monitor list __init__ builds; apiKey: SECRET_TICKETMASTER_API_KEY is set
BuildMonitors(cfg, apiKey) ==
    (IF cfg.taylor_swift_enabled THEN <<MonitorOf(TS, <<>>)>> ELSE <<>>)
    \o (IF cfg.bandsintown_enabled /\ Len(cfg.bandsintown_artists) > 0
        THEN <<MonitorOf(BIT, cfg.bandsintown_artists)>> ELSE <<>>)
    \o (IF cfg.ticketmaster_enabled /\ apiKey
        THEN <<MonitorOf(TM, cfg.ticketmaster_artists)>> ELSE <<>>)

\* self.twilio_client: a Client when enabled, None otherwise
TwilioClient(enabled) == IF enabled THEN S("Client") ELSE PyNone

\* MonitorBase.send_sms: gated by self.twilio_client
SendSms(client, outcome) ==
    IF ~Truthy(client) THEN
        [ret |-> FALSE, contacted |-> FALSE, raised |-> FALSE, logs |-> <<>>]
    ELSE IF outcome = "ok" THEN
        [ret |-> TRUE, contacted |-> TRUE, raised |-> FALSE, logs |-> <<"SMS sent">>]
    ELSE
        [ret |-> FALSE, contacted |-> TRUE, raised |-> FALSE,
         logs |-> <<"Failed to send SMS">>]

(***************************************************************************)
(* unified_monitor.py: TaylorSwiftCountdownMonitor.check / format_alert.   *)
(***************************************************************************)
TsElement(n) ==
    PyDict(<< <<<<"type">>, S("element")>>,
              <<<<"text">>, PyStr(Take(n.text, TextLimit))>> >>)
TsText(n) ==
    PyDict(<< <<<<"type">>, S("text")>>,
              <<<<"text">>, PyStr(Take(n.text, TextLimit))>> >>)

\* check(): None when the fetch raised, else {'countdowns': [...], 'count': n}
\* of the class hits, the id hits and the text hits of the page
TsCheck(fetch) ==
    IF ~fetch.ok THEN PyNone
    ELSE LET found == MapSeq(TsElement, SelectSeq(fetch.page, IsClassHit))
                      \o MapSeq(TsElement, SelectSeq(fetch.page, IsIdHit))
                      \o MapSeq(TsText, SelectSeq(fetch.page, MatchesText))
         IN PyDict(<< <<<<"countdowns">>, PyList(found)>>,
                      <<<<"count">>, PyInt(Len(found))>> >>)

\* the pages the unified monitor is fed
TsFetches == {FetchError} \cup {Page(q) : q \in SeqsUpTo({NodeTimer, NodeText}, 1)}

(***************************************************************************)
(* unified_monitor.py: BandsintownMonitor / TicketmasterMonitor.           *)
(***************************************************************************)
EventIds == {PyStr(<<"e", ToString(i)>>) : i \in 1..MaxFeed}
Whens == {S("2026-05-01T20:00:00"), PyNone}
FirstId == PyStr(<<"e", ToString(1)>>)

\* one event of a provider's response
FeedEvent(name, id, when) ==
    IF name = BIT
    THEN PyDict(<< <<<<"id">>, id>>, <<<<"datetime">>, when>> >>)
    ELSE PyDict(<< <<<<"id">>, id>>,
                   <<<<"dates">>, PyDict(<< <<<<"start">>,
                        PyDict(<< <<<<"localDate">>, when>> >>)>> >>)>> >>)

EventId(event) == DictGet(event, <<"id">>, PyNone)
IdsOf(events) == [i \in 1..Len(events) |-> EventId(events[i])]

\* what the GET of an artist's events yields: status 200 with the events,
\* another status, or an exception (timeout, DNS, a body that is no JSON)
Ok200(name, events) == [by |-> name, kind |-> "200", events |-> events]
Non200(name) == [by |-> name, kind |-> "non200", events |-> <<>>]
Raises(name) == [by |-> name, kind |-> "raises", events |-> <<>>]

\* the event lists of a response: any ids in any order, an id may repeat
Feeds(name) ==
    UNION {{[i \in 1..Len(ids) |-> FeedEvent(name, ids[i], w)] : w \in Whens} :
              ids \in SeqsUpTo(EventIds, MaxFeed)}

ResponsesOf(name, feeds) == {Ok200(name, f) : f \in feeds} \cup {Non200(name), Raises(name)}

\* every response within the bounds
EventResponses == ResponsesOf(BIT, Feeds(BIT)) \cup ResponsesOf(TM, Feeds(TM))

\* the responses the whole system is run on: one event at most
RunnerResponses ==
    {r \in EventResponses : Len(r.events) <= 1 /\ IdsOf(r.events) \in {<<>>, <<FirstId>>}}

\* the record check() appends for a new event
NewEventRecord(name, artist, event) ==
    IF name = BIT
    THEN PyDict(<< <<<<"artist">>, PyStr(artist)>>,
                   <<<<"venue">>, S("Unknown")>>,
                   <<<<"location">>, S("Unknown")>>,
                   <<<<"datetime">>, DictGet(event, <<"datetime">>, S("Unknown"))>>,
                   <<<<"url">>, PyStr(<<>>)>> >>)
    ELSE PyDict(<< <<<<"artist">>, PyStr(artist)>>,
                   <<<<"name">>, S("Unknown Event")>>,
                   <<<<"venue">>, S("Unknown")>>,
                   <<<<"location">>, S(", ")>>,
                   <<<<"date">>,
                     DictGet(DictGet(DictGet(event, <<"dates">>, EmptyDict),
                                     <<"start">>, EmptyDict),
                             <<"localDate">>, S("Unknown"))>>,
                   <<<<"url">>, PyStr(<<>>)>> >>)

SeqToSet(q) == {q[i] : i \in 1..Len(q)}

\* previous_event_ids = set(self.previous_state.get(artist, {}).get('event_ids', []))
PreviousEventIds(state, artist) ==
    SeqToSet(DictGet(DictGet(state, artist, EmptyDict), <<"event_ids">>, PyList(<<>>)).v)

\* mutant: every event of the response counts as new
NewEventsAll(events, previousIds) == events

\* the events of a response whose id is not in the previous ids, in order
NewEventsOf(events, previousIds) ==
    SelectSeq(events, LAMBDA e : EventId(e) \notin previousIds)

\* self.previous_state[artist] = {'event_ids': ..., 'last_check': ...}
ArtistState(ids, now) ==
    PyDict(<< <<<<"event_ids">>, PyList(ids)>>, <<<<"last_check">>, Isoformat(now)>> >>)

\* the result check() returns for all_new_events
EventResult(events) ==
    PyDict(<< <<<<"new_events">>, PyList(events)>>, <<<<"count">>, PyInt(Len(events))>> >>)

ShownLimit == 3

\* format_alert: the message, or raised = TRUE for the TypeError of
\* `'T' in event['datetime']` on a datetime that is not a str, among the
\* first three events of the Bandsintown message
FormatAlert(name, data) ==
    LET count == DictGet(data, <<"count">>, PyNone).v
        events == IF name = TS THEN <<>> ELSE DictGet(data, <<"new_events">>, PyNone).v
        shown == Take(events, ShownLimit)
    IN [raised |-> name = BIT /\ \E i \in 1..Len(shown) :
                      DictGet(shown[i], <<"datetime">>, PyNone).t # "str",
        msg |-> [kind |-> name, count |-> count, shown |-> Len(shown),
                 more |-> IF name # TS /\ count > ShownLimit THEN count - ShownLimit ELSE 0]]

(***************************************************************************)
(* unified_monitor.py: UnifiedMonitorSystem.run.                           *)
(***************************************************************************)
MonitorNames == {TS, BIT, TM}
Cur == monitors[idx]
IsEventMonitor(m) == m.name \in {BIT, TM}

\* a state file an earlier run of an event monitor has written
EarlierFile ==
    FileOf(JsonDumpsIndent(PyDict(<< <<Artist1,
        ArtistState(<<FirstId>>, 0)>> >>)))

\* the id lists a loaded state document stands for: what the check that
\* wrote it had fetched
DoneOfState(state) ==
    PyDict([i \in 1..Len(state.v) |->
               <<state.v[i][1], DictGet(state.v[i][2], <<"event_ids">>, PyList(<<>>))>>])

\* the id lists of a check that ran to its end, artist by artist: the list
\* of a 200 response; an artist skipped on a non-200 keeps its earlier entry
RECURSIVE RecordDone(_, _, _, _)
RecordDone(done, artists, responses, k) ==
    IF k > Len(artists) THEN done
    ELSE RecordDone(IF responses[k].kind = "200"
                    THEN DictSet(done, artists[k], PyList(IdsOf(responses[k].events)))
                    ELSE done,
                    artists, responses, k + 1)

\* last_done once the for loop leaves the current monitor
DoneAfter ==
    IF IsEventMonitor(Cur) /\ ai > Len(Cur.artists)
    THEN [last_done EXCEPT ![Cur.name] =
             RecordDone(last_done[Cur.name], Cur.artists, fetched, 1)]
    ELSE last_done

Snapshot(name) == [mem |-> previous_state[name], file |-> disk[name], ended |-> PyNone]

\* the state run() starts from, for a set of configurations
InitWith(configs, envs) ==
    /\ env \in envs
    /\ twilio_enabled = TwilioEnabled(env)
    /\ \E cfg \in configs : monitors = BuildMonitors(cfg, TRUE)
    /\ \E f \in {NoFile, EarlierFile} :
          disk = [n \in FileNames |-> IF n \in {BIT, TM} THEN f ELSE NoFile]
    /\ last_done = [n \in MonitorNames |-> EmptyDict]
    /\ previous_state = [n \in MonitorNames |-> PyNone]
    /\ pc = "init"
    /\ idx = 1
    /\ ai = 1
    /\ check_count = 0
    /\ all_new_events = <<>>
    /\ result = PyNone
    /\ fetched = <<>>
    /\ new_ids = <<>>
    /\ checked = <<>>
    /\ failures = <<>>
    /\ ts_last = PyNone
    /\ sent = <<>>
    /\ log = <<>>
    /\ saves = <<>>
    /\ pre = [mem |-> PyNone, file |-> NoFile, ended |-> PyNone]
    /\ previous_countdowns = PyNone
    /\ countdowns = PyNone
    /\ ended = PyNone

Init == InitWith(Configs, RunEnvs)

\* initialize_monitors(): monitor.initialize() of one monitor
UInitialize(readOutcome) ==
    /\ pc = "init"
    /\ idx <= Len(monitors)
    /\ previous_state' = [previous_state EXCEPT
                            ![Cur.name] = LoadState(disk[Cur.name], readOutcome)]
    /\ idx' = idx + 1
    /\ UNCHANGED <<env, twilio_enabled, disk, pc, check_count, sent, log, saves, pre,
                   monitors, ai, all_new_events, result, fetched, new_ids, checked,
                   failures, ts_last>>
    /\ UNCHANGED cdVars
    /\ last_done' = [last_done EXCEPT ![Cur.name] =
          DoneOfState(LoadState(disk[Cur.name], readOutcome))]

\* the startup message, sent through the first monitor when Twilio is enabled
UStartup(sendOutcome) ==
    /\ pc = "init"
    /\ idx > Len(monitors)
    /\ LET r == SendSms(TwilioClient(twilio_enabled), sendOutcome)
       IN IF twilio_enabled /\ Len(monitors) > 0
          THEN /\ sent' = <<SmsRecord(monitors[1].name, "startup", sendOutcome, r)>>
               /\ log' = [k \in 1..Len(r.logs) |-> <<monitors[1].name, r.logs[k]>>]
          ELSE /\ sent' = <<>>
               /\ log' = <<>>
    /\ pc' = "loop"
    /\ UNCHANGED <<env, twilio_enabled, disk, check_count, saves, pre, monitors,
                   previous_state, idx, ai, all_new_events, result, fetched, new_ids,
                   checked, failures, ts_last>>
    /\ UNCHANGED cdVars
    /\ UNCHANGED last_done

\* the for loop of run() reaches monitor i: "Running check..."
Enter(i) ==
    /\ idx' = i
    /\ ai' = 1
    /\ all_new_events' = <<>>
    /\ result' = PyNone
    /\ fetched' = <<>>
    /\ new_ids' = <<>>
    /\ sent' = <<>>
    /\ saves' = <<>>
    /\ IF i <= Len(monitors)
       THEN /\ pc' = "check"
            /\ log' = << <<monitors[i].name, "Running check...">> >>
            /\ pre' = Snapshot(monitors[i].name)
       ELSE /\ pc' = "sleep"
            /\ log' = <<>>
            /\ pre' = [mem |-> PyNone, file |-> NoFile, ended |-> PyNone]

\* the head of `while True`: check_count += 1, the for loop starts
UBegin ==
    /\ pc = "loop"
    /\ check_count < MaxCycles
    /\ check_count' = check_count + 1
    /\ checked' = <<>>
    /\ failures' = <<>>
    /\ Enter(1)
    /\ UNCHANGED <<env, twilio_enabled, disk, monitors, previous_state, ts_last>>
    /\ UNCHANGED cdVars
    /\ UNCHANGED last_done

\* mutant: an error of the fetch leaves check() and the loop of run()
UCheckTSUnguarded(fetch) ==
    /\ pc = "check"
    /\ Cur.name = TS
    /\ result' = TsCheck(fetch)
    /\ fetched' = <<fetch>>
    /\ log' = IF fetch.ok THEN log ELSE Append(log, <<TS, "Error checking">>)
    /\ failures' = IF fetch.ok THEN failures ELSE Append(failures, TS)
    /\ checked' = Append(checked, TS)
    /\ pc' = IF fetch.ok THEN "alert" ELSE "failed"
    /\ UNCHANGED <<env, twilio_enabled, disk, check_count, sent, saves, pre, monitors,
                   previous_state, idx, ai, all_new_events, new_ids, ts_last>>
    /\ UNCHANGED cdVars
    /\ UNCHANGED last_done

\* result = await monitor.check() of the Taylor Swift monitor
UCheckTS(fetch) ==
    /\ pc = "check"
    /\ Cur.name = TS
    /\ result' = TsCheck(fetch)
    /\ fetched' = <<fetch>>
    /\ log' = IF fetch.ok THEN log ELSE Append(log, <<TS, "Error checking">>)
    /\ failures' = IF fetch.ok THEN failures ELSE Append(failures, TS)
    /\ checked' = Append(checked, TS)
    /\ pc' = "alert"
    /\ UNCHANGED <<env, twilio_enabled, disk, check_count, sent, saves, pre, monitors,
                   previous_state, idx, ai, all_new_events, new_ids, ts_last>>
    /\ UNCHANGED cdVars
    /\ UNCHANGED last_done

\* mutant: a non-200 status raises, as after raise_for_status()
UFetchArtistStrict(resp) ==
    /\ pc = "check"
    /\ IsEventMonitor(Cur)
    /\ ai <= Len(Cur.artists)
    /\ resp.by = Cur.name
    /\ fetched' = Append(fetched, resp)
    /\ LET name == Cur.name
           artist == Cur.artists[ai]
           previousIds == PreviousEventIds(previous_state[name], artist)
           fresh == NewEventsOf(resp.events, previousIds)
       IN CASE resp.kind \in {"raises", "non200"} ->
                 /\ result' = PyNone
                 /\ log' = Append(log, <<name, "Error checking">>)
                 /\ failures' = Append(failures, name)
                 /\ checked' = Append(checked, name)
                 /\ pc' = "alert"
                 /\ UNCHANGED <<previous_state, ai, all_new_events, new_ids>>
            [] resp.kind = "200" ->
                 /\ all_new_events' = all_new_events
                       \o [k \in 1..Len(fresh) |-> NewEventRecord(name, artist, fresh[k])]
                 /\ new_ids' = new_ids
                       \o [k \in 1..Len(fresh) |-> <<artist, EventId(fresh[k])>>]
                 /\ previous_state' = [previous_state EXCEPT ![name] =
                       DictSet(previous_state[name], artist,
                               ArtistState(IdsOf(resp.events), check_count))]
                 /\ ai' = ai + 1
                 /\ UNCHANGED <<result, log, pc, failures, checked>>
    /\ UNCHANGED <<env, twilio_enabled, disk, check_count, sent, saves, pre, monitors, idx,
                   ts_last>>
    /\ UNCHANGED cdVars
    /\ UNCHANGED last_done

\* check() of an event monitor: one turn of `for artist in self.artists`
UFetchArtist(resp) ==
    /\ pc = "check"
    /\ IsEventMonitor(Cur)
    /\ ai <= Len(Cur.artists)
    /\ resp.by = Cur.name
    /\ fetched' = Append(fetched, resp)
    /\ LET name == Cur.name
           artist == Cur.artists[ai]
           previousIds == PreviousEventIds(previous_state[name], artist)
           fresh == NewEventsOf(resp.events, previousIds)
       IN CASE resp.kind = "raises" ->
                 /\ result' = PyNone
                 /\ log' = Append(log, <<name, "Error checking">>)
                 /\ failures' = Append(failures, name)
                 /\ checked' = Append(checked, name)
                 /\ pc' = "alert"
                 /\ UNCHANGED <<previous_state, ai, all_new_events, new_ids>>
            [] resp.kind = "non200" ->
                 /\ ai' = ai + 1
                 /\ UNCHANGED <<previous_state, all_new_events, new_ids, result, log, pc,
                                failures, checked>>
            [] resp.kind = "200" ->
                 /\ all_new_events' = all_new_events
                       \o [k \in 1..Len(fresh) |-> NewEventRecord(name, artist, fresh[k])]
                 /\ new_ids' = new_ids
                       \o [k \in 1..Len(fresh) |-> <<artist, EventId(fresh[k])>>]
                 /\ previous_state' = [previous_state EXCEPT ![name] =
                       DictSet(previous_state[name], artist,
                               ArtistState(IdsOf(resp.events), check_count))]
                 /\ ai' = ai + 1
                 /\ UNCHANGED <<result, log, pc, failures, checked>>
    /\ UNCHANGED <<env, twilio_enabled, disk, check_count, sent, saves, pre, monitors, idx,
                   ts_last>>
    /\ UNCHANGED cdVars
    /\ UNCHANGED last_done

\* mutant: the document saved is the state the check began with
UFinishNewSavesOld(saveOutcome) ==
    /\ pc = "check"
    /\ IsEventMonitor(Cur)
    /\ ai > Len(Cur.artists)
    /\ Len(all_new_events) > 0
    /\ LET w == SaveState(disk[Cur.name], pre.mem, saveOutcome)
       IN /\ disk' = [disk EXCEPT ![Cur.name] = w.file]
          /\ log' = log \o [k \in 1..Len(w.logs) |-> <<Cur.name, w.logs[k]>>]
    /\ saves' = Append(saves, pre.mem)
    /\ result' = EventResult(all_new_events)
    /\ checked' = Append(checked, Cur.name)
    /\ pc' = "alert"
    /\ UNCHANGED <<env, twilio_enabled, check_count, sent, pre, monitors, previous_state,
                   idx, ai, all_new_events, fetched, new_ids, failures, ts_last>>
    /\ UNCHANGED cdVars
    /\ UNCHANGED last_done

\* check() after the last artist, new events found: save_state, the result
UFinishNew(saveOutcome) ==
    /\ pc = "check"
    /\ IsEventMonitor(Cur)
    /\ ai > Len(Cur.artists)
    /\ Len(all_new_events) > 0
    /\ LET w == SaveState(disk[Cur.name], previous_state[Cur.name], saveOutcome)
       IN /\ disk' = [disk EXCEPT ![Cur.name] = w.file]
          /\ log' = log \o [k \in 1..Len(w.logs) |-> <<Cur.name, w.logs[k]>>]
    /\ saves' = Append(saves, previous_state[Cur.name])
    /\ result' = EventResult(all_new_events)
    /\ checked' = Append(checked, Cur.name)
    /\ pc' = "alert"
    /\ UNCHANGED <<env, twilio_enabled, check_count, sent, pre, monitors, previous_state,
                   idx, ai, all_new_events, fetched, new_ids, failures, ts_last>>
    /\ UNCHANGED cdVars
    /\ UNCHANGED last_done

\* mutant: a check that found nothing returns an empty result
UFinishEmptyResult ==
    /\ pc = "check"
    /\ IsEventMonitor(Cur)
    /\ ai > Len(Cur.artists)
    /\ Len(all_new_events) = 0
    /\ result' = EventResult(<<>>)
    /\ checked' = Append(checked, Cur.name)
    /\ pc' = "alert"
    /\ UNCHANGED <<env, twilio_enabled, disk, check_count, sent, log, saves, pre, monitors,
                   previous_state, idx, ai, all_new_events, fetched, new_ids, failures,
                   ts_last>>
    /\ UNCHANGED cdVars
    /\ UNCHANGED last_done

\* mutant: a check that found nothing new saves the refreshed ids too
UFinishNoneSaves ==
    /\ pc = "check"
    /\ IsEventMonitor(Cur)
    /\ ai > Len(Cur.artists)
    /\ Len(all_new_events) = 0
    /\ \E saveOutcome \in SaveOutcomes :
          LET w == SaveState(disk[Cur.name], previous_state[Cur.name], saveOutcome)
          IN /\ disk' = [disk EXCEPT ![Cur.name] = w.file]
             /\ log' = log \o [k \in 1..Len(w.logs) |-> <<Cur.name, w.logs[k]>>]
    /\ saves' = Append(saves, previous_state[Cur.name])
    /\ result' = PyNone
    /\ checked' = Append(checked, Cur.name)
    /\ pc' = "alert"
    /\ UNCHANGED <<env, twilio_enabled, check_count, sent, pre, monitors, previous_state,
                   idx, ai, all_new_events, fetched, new_ids, failures, ts_last>>
    /\ UNCHANGED cdVars
    /\ UNCHANGED last_done

\* check() after the last artist, nothing new: return None
UFinishNone ==
    /\ pc = "check"
    /\ IsEventMonitor(Cur)
    /\ ai > Len(Cur.artists)
    /\ Len(all_new_events) = 0
    /\ result' = PyNone
    /\ checked' = Append(checked, Cur.name)
    /\ pc' = "alert"
    /\ UNCHANGED <<env, twilio_enabled, disk, check_count, sent, log, saves, pre, monitors,
                   previous_state, idx, ai, all_new_events, fetched, new_ids, failures,
                   ts_last>>
    /\ UNCHANGED cdVars
    /\ UNCHANGED last_done

\* mutant: no per-monitor guard, a format_alert that raises ends run()
UAlertUnguarded(sendOutcome) ==
    /\ pc = "alert"
    /\ Truthy(result)
    /\ LET name == Cur.name
           f == FormatAlert(name, result)
           r == SendSms(TwilioClient(twilio_enabled), sendOutcome)
           told == Append(log, <<name, "New data detected!">>)
       IN IF f.raised
          THEN /\ sent' = Append(sent, SmsRecord(monitors[1].name, "error", sendOutcome, r))
               /\ log' = told
               /\ pc' = "failed"
          ELSE /\ sent' = Append(sent, SmsRecord(name, f.msg.kind, sendOutcome, r))
               /\ log' = told \o [k \in 1..Len(r.logs) |-> <<name, r.logs[k]>>]
               /\ pc' = "next"
    /\ UNCHANGED <<env, twilio_enabled, disk, check_count, saves, pre, monitors,
                   previous_state, idx, ai, all_new_events, result, fetched, new_ids,
                   checked, failures, ts_last>>
    /\ UNCHANGED cdVars
    /\ UNCHANGED last_done

\* `if result:` taken: format_alert and send_sms, under the per-monitor guard
\* whose `except Exception` logs "Check failed"
UAlert(sendOutcome) ==
    /\ pc = "alert"
    /\ Truthy(result)
    /\ LET name == Cur.name
           f == FormatAlert(name, result)
           r == SendSms(TwilioClient(twilio_enabled), sendOutcome)
           told == Append(log, <<name, "New data detected!">>)
       IN IF f.raised
          THEN /\ sent' = sent
               /\ log' = Append(told, <<name, "Check failed">>)
               /\ failures' = Append(failures, name)
          ELSE /\ sent' = Append(sent, SmsRecord(name, f.msg.kind, sendOutcome, r))
               /\ log' = told \o [k \in 1..Len(r.logs) |-> <<name, r.logs[k]>>]
                              \o (IF r.raised THEN << <<name, "Check failed">> >> ELSE <<>>)
               /\ failures' = IF r.raised THEN Append(failures, name) ELSE failures
    /\ pc' = "next"
    /\ UNCHANGED <<env, twilio_enabled, disk, check_count, saves, pre, monitors,
                   previous_state, idx, ai, all_new_events, result, fetched, new_ids,
                   checked, ts_last>>
    /\ UNCHANGED cdVars
    /\ UNCHANGED last_done

\* `else:` of `if result:`
UNoData ==
    /\ pc = "alert"
    /\ ~Truthy(result)
    /\ log' = Append(log, <<Cur.name, "No new data">>)
    /\ pc' = "next"
    /\ UNCHANGED <<env, twilio_enabled, disk, check_count, sent, saves, pre, monitors,
                   previous_state, idx, ai, all_new_events, result, fetched, new_ids,
                   checked, failures, ts_last>>
    /\ UNCHANGED cdVars
    /\ UNCHANGED last_done

\* mutant: a failure of the monitor just processed ends the for loop
UNextAbortsOnFailure ==
    /\ pc = "next"
    /\ ts_last' = IF Cur.name = TS THEN result ELSE ts_last
    /\ IF Cur.name \in SeqToSet(failures) THEN Enter(Len(monitors) + 1) ELSE Enter(idx + 1)
    /\ UNCHANGED <<env, twilio_enabled, disk, check_count, monitors, previous_state,
                   checked, failures>>
    /\ UNCHANGED cdVars
    /\ last_done' = DoneAfter

\* mutant: the for loop passes over the monitor after a failed one
UNextSkipsOne ==
    /\ pc = "next"
    /\ ts_last' = IF Cur.name = TS THEN result ELSE ts_last
    /\ IF Cur.name \in SeqToSet(failures) THEN Enter(idx + 2) ELSE Enter(idx + 1)
    /\ UNCHANGED <<env, twilio_enabled, disk, check_count, monitors, previous_state,
                   checked, failures>>
    /\ UNCHANGED cdVars
    /\ last_done' = DoneAfter

\* the for loop takes the next monitor, or ends and the sleep begins
UNext ==
    /\ pc = "next"
    /\ ts_last' = IF Cur.name = TS THEN result ELSE ts_last
    /\ Enter(idx + 1)
    /\ UNCHANGED <<env, twilio_enabled, disk, check_count, monitors, previous_state,
                   checked, failures>>
    /\ UNCHANGED cdVars
    /\ last_done' = DoneAfter

\* await asyncio.sleep(self.check_interval) returns
USleep ==
    /\ pc = "sleep"
    /\ check_count < MaxCycles
    /\ pc' = "loop"
    /\ UNCHANGED <<env, twilio_enabled, disk, check_count, sent, log, saves, pre>>
    /\ UNCHANGED uVars
    /\ UNCHANGED cdVars

\* the steps of run() that take nothing from the outside
RunSteps ==
    \/ \E ro \in ReadOutcomes : UInitialize(ro)
    \/ \E so \in SendOutcomes : UStartup(so)
    \/ UBegin
    \/ \E wo \in SaveOutcomes : UFinishNew(wo)
    \/ UFinishNone
    \/ \E so \in SendOutcomes : UAlert(so)
    \/ UNoData
    \/ UNext
    \/ USleep

\* the whole system, every monitor enabled, on a small repertoire of responses
Next ==
    \/ RunSteps
    \/ \E f \in TsFetches : UCheckTS(f)
    \/ \E resp \in RunnerResponses : UFetchArtist(resp)

Spec == Init /\ [][Next]_vars

\* the system configured with one event monitor (Bandsintown with two
\* artists, or Ticketmaster with one), on every response within the bounds
EventConfigs ==
    {[DefaultConfig EXCEPT !.taylor_swift_enabled = FALSE],
     [DefaultConfig EXCEPT !.taylor_swift_enabled = FALSE,
                           !.bandsintown_enabled = FALSE,
                           !.ticketmaster_enabled = TRUE,
                           !.ticketmaster_artists = <<Artist2>>]}

InitEvents == InitWith(EventConfigs, {AllSet})

NextEvents ==
    \/ RunSteps
    \/ \E resp \in EventResponses : UFetchArtist(resp)

SpecEvents == InitEvents /\ [][NextEvents]_vars

(***************************************************************************)
(* unified_monitor.py: the ways run() ends.  `asyncio.run(monitor.run())`  *)
(* drives the coroutine; run() wraps its `while True` in                   *)
(* `except KeyboardInterrupt` and `except Exception`.                      *)
(***************************************************************************)
\* what reaches the coroutine when the operator interrupts the process: a
\* KeyboardInterrupt raised in the code of run() itself (the default SIGINT
\* handler, while the coroutine is executing), or a CancelledError at the
\* await it is suspended in (asyncio.run cancels the main task: on SIGINT, or
\* when the KeyboardInterrupt was raised in the event loop).  CancelledError
\* is a BaseException: neither handler of run() catches it.
InterruptOutcomes == {"KeyboardInterrupt", "CancelledError"}

InTry == pc \in {"loop", "check", "alert", "next", "sleep"}

\* the final message of a handler of run(), sent through the first monitor
FinalSms(kind, sendOutcome) ==
    LET r == SendSms(TwilioClient(twilio_enabled), sendOutcome)
    IN IF twilio_enabled /\ Len(monitors) > 0
       THEN /\ sent' = Append(sent, SmsRecord(monitors[1].name, kind, sendOutcome, r))
            /\ log' = log \o [k \in 1..Len(r.logs) |-> <<monitors[1].name, r.logs[k]>>]
       ELSE /\ sent' = sent
            /\ log' = log

\* the operator interrupts the process while run() is inside its try block
UInterrupt(how, sendOutcome) ==
    /\ InTry
    /\ IF how = "KeyboardInterrupt"
       THEN /\ FinalSms("stopped", sendOutcome)
            /\ pc' = "stopped"
       ELSE /\ sent' = sent
            /\ log' = log
            /\ pc' = "cancelled"
    /\ UNCHANGED <<env, twilio_enabled, disk, check_count, saves, pre>>
    /\ UNCHANGED uVars
    /\ UNCHANGED cdVars

\* await asyncio.sleep(self.check_interval) raises (a check_interval from
\* config.json that is not a number): `except Exception`, then `raise`
USleepRaises(sendOutcome) ==
    /\ pc = "sleep"
    /\ FinalSms("error", sendOutcome)
    /\ pc' = "failed"
    /\ UNCHANGED <<env, twilio_enabled, disk, check_count, saves, pre>>
    /\ UNCHANGED uVars
    /\ UNCHANGED cdVars

\* one monitor, or none at all
RunConfigs ==
    {[DefaultConfig EXCEPT !.bandsintown_artists = <<Artist1>>,
                           !.taylor_swift_enabled = FALSE],
     [DefaultConfig EXCEPT !.taylor_swift_enabled = FALSE,
                           !.bandsintown_enabled = FALSE]}

InitRun == InitWith(RunConfigs, RunEnvs)

NextRun ==
    \/ RunSteps
    \/ \E resp \in RunnerResponses : UFetchArtist(resp)
    \/ \E how \in InterruptOutcomes, so \in SendOutcomes : UInterrupt(how, so)
    \/ \E so \in SendOutcomes : USleepRaises(so)

\* run() from its start to its end
SpecRun == InitRun /\ [][NextRun]_vars

(***************************************************************************)
(* Either program: the process runs unified_monitor.py or                  *)
(* countdown_monitor.py.                                                   *)
(***************************************************************************)
\* countdown_monitor.py has no monitor list
IsCountdownScript == monitors = <<>>

InitEither == Init \/ CdInit

NextEither ==
    \/ ~IsCountdownScript /\ Next
    \/ IsCountdownScript /\ CdNext

SpecEither == InitEither /\ [][NextEither]_vars

(***************************************************************************)
(* unified_monitor.py: runs in which no request raises and no save fails,  *)
(* and the process may be restarted between two cycles.                    *)
(***************************************************************************)
\* the process is stopped during the sleep and started again: __init__,
\* initialize_monitors() reading every state file, the startup message.
\* check_count keeps counting: it is also the clock.
URestart(sendOutcome) ==
    /\ pc = "sleep"
    /\ check_count < MaxCycles
    /\ previous_state' = [n \in MonitorNames |->
          IF \E i \in 1..Len(monitors) : monitors[i].name = n
          THEN LoadState(disk[n], "ok") ELSE PyNone]
    /\ LET r == SendSms(TwilioClient(twilio_enabled), sendOutcome)
       IN IF twilio_enabled /\ Len(monitors) > 0
          THEN /\ sent' = <<SmsRecord(monitors[1].name, "startup", sendOutcome, r)>>
               /\ log' = [k \in 1..Len(r.logs) |-> <<monitors[1].name, r.logs[k]>>]
          ELSE /\ sent' = <<>>
               /\ log' = <<>>
    /\ pc' = "loop"
    /\ UNCHANGED <<env, twilio_enabled, disk, check_count, saves, pre, monitors, idx, ai,
                   all_new_events, result, fetched, new_ids, checked, failures, ts_last,
                   last_done>>
    /\ UNCHANGED cdVars

CleanResponses == {r \in EventResponses : r.kind # "raises"}

NextClean ==
    \/ \E ro \in ReadOutcomes : UInitialize(ro)
    \/ \E so \in SendOutcomes : UStartup(so)
    \/ UBegin
    \/ \E resp \in CleanResponses : UFetchArtist(resp)
    \/ UFinishNew("ok")
    \/ UFinishNone
    \/ \E so \in SendOutcomes : UAlert(so)
    \/ UNoData
    \/ UNext
    \/ USleep
    \/ \E so \in SendOutcomes : URestart(so)

SpecClean == InitEvents /\ [][NextClean]_vars

(***************************************************************************)
(* unified_monitor.py: `while True` without end.  check_count is only      *)
(* printed; beyond MaxCycles the model keeps it at MaxCycles.  No          *)
(* interrupt arrives and asyncio.sleep does not raise, and every awaited   *)
(* fetch, save and send comes back (returning or raising), so the          *)
(* coroutine of run() always takes its next step.                          *)
(***************************************************************************)
\* the head of `while True` in a cycle past the counted ones
UBeginAgain ==
    /\ pc = "loop"
    /\ check_count = MaxCycles
    /\ checked' = <<>>
    /\ failures' = <<>>
    /\ Enter(1)
    /\ UNCHANGED <<env, twilio_enabled, disk, check_count, monitors, previous_state,
                   ts_last>>
    /\ UNCHANGED cdVars
    /\ UNCHANGED last_done

\* await asyncio.sleep(self.check_interval) returns, past the counted cycles
USleepAgain ==
    /\ pc = "sleep"
    /\ check_count = MaxCycles
    /\ pc' = "loop"
    /\ UNCHANGED <<env, twilio_enabled, disk, check_count, sent, log, saves, pre>>
    /\ UNCHANGED uVars
    /\ UNCHANGED cdVars

NextForever ==
    \/ Next
    \/ UBeginAgain
    \/ USleepAgain

\* at each position of run(), one of the ways the step there completes.  It
\* is enabled wherever a step of NextForever is, and a run that goes on
\* takes UBegin, UNext and the sleep again and again: weak fairness of
\* Resume excludes the runs that halt for ever at some position, and no
\* other.
Resume ==
    \/ UInitialize("read_fails")
    \/ UStartup("raises")
    \/ UBegin
    \/ UBeginAgain
    \/ UCheckTS(FetchError)
    \/ \E name \in {BIT, TM} : UFetchArtist(Raises(name))
    \/ UFinishNew("open_fails")
    \/ UFinishNone
    \/ UAlert("raises")
    \/ UNoData
    \/ UNext
    \/ USleep
    \/ USleepAgain

\* the event loop resumes run() whenever what it awaits has completed
SpecForever == Init /\ [][NextForever]_vars /\ WF_vars(Resume)

(***************************************************************************)
(* StateStore on its own: save_state and load_state of monitors, called in *)
(* any order; each load_state is that of a fresh instance.  log is the     *)
(* history of the calls, result the document the last load returned.       *)
(***************************************************************************)
MaxStoreOps == 3
StoreNames == {CdFile, BIT}

\* documents the monitors hand to save_state, and documents with the values
\* JSON can hold in them
StoreDocs ==
    {EmptyDict,
     CountdownState(CheckForCountdown(Page(<<NodeTimer>>)), 1),
     PyDict(<< <<Artist1, ArtistState(<<FirstId>>, 1)>> >>),
     PyDict(<< <<Artist1, ArtistState(<<>>, 1)>>,
               <<Artist2, ArtistState(<<PyInt(2), PyNone, FirstId>>, 2)>> >>),
     PyDict(<< <<<<"text">>, PyStr(<<BS, Q, NL, "a", SP>>)>>,
               <<<<"count">>, PyInt(0)>> >>)}

StoreCall(op, name, doc, outcome) ==
    [op |-> op, name |-> name, doc |-> doc, outcome |-> outcome]

StoreInit ==
    /\ env = AllSet
    /\ twilio_enabled = TwilioEnabled(env)
    /\ disk = [n \in FileNames |-> NoFile]
    /\ pc = "store"
    /\ check_count = 0
    /\ previous_countdowns = PyNone
    /\ countdowns = PyNone
    /\ sent = <<>>
    /\ log = <<>>
    /\ saves = <<>>
    /\ pre = [mem |-> PyNone, file |-> NoFile, ended |-> PyNone]
    /\ ended = PyNone
    /\ monitors = <<>>
    /\ previous_state = <<>>
    /\ idx = 0
    /\ ai = 0
    /\ all_new_events = <<>>
    /\ result = PyNone
    /\ fetched = <<>>
    /\ new_ids = <<>>
    /\ checked = <<>>
    /\ failures = <<>>
    /\ ts_last = PyNone
    /\ last_done = <<>>

\* await self.save_state(doc) of the monitor `name`
DoSaveState(name, doc, outcome) ==
    /\ pc = "store"
    /\ Len(log) < MaxStoreOps
    /\ disk' = [disk EXCEPT ![name] = SaveState(disk[name], doc, outcome).file]
    /\ log' = Append(log, StoreCall("save", name, doc, outcome))
    /\ UNCHANGED <<env, twilio_enabled, pc, check_count, sent, saves, pre>>
    /\ UNCHANGED uVars
    /\ UNCHANGED cdVars

\* await self.load_state() of a new instance of the monitor `name`
DoLoadState(name, outcome) ==
    /\ pc = "store"
    /\ Len(log) < MaxStoreOps
    /\ result' = LoadState(disk[name], outcome)
    /\ log' = Append(log, StoreCall("load", name, PyNone, outcome))
    /\ UNCHANGED <<env, twilio_enabled, disk, pc, check_count, sent, saves, pre,
                   monitors, previous_state, idx, ai, all_new_events, fetched, new_ids,
                   checked, failures, ts_last, last_done>>
    /\ UNCHANGED cdVars

StoreNext ==
    \/ \E n \in StoreNames, d \in StoreDocs, wo \in SaveOutcomes : DoSaveState(n, d, wo)
    \/ \E n \in StoreNames, ro \in ReadOutcomes : DoLoadState(n, ro)

SpecStore == StoreInit /\ [][StoreNext]_vars

(***************************************************************************)
(* Notifier on its own: send_sms of both programs, under every combination *)
(* of the four credentials.  sent is the record of the calls.              *)
(***************************************************************************)
MaxSends == 2
Envs == [Creds -> BOOLEAN]

NotifierInit ==
    /\ env \in Envs
    /\ twilio_enabled = TwilioEnabled(env)
    /\ disk = [n \in FileNames |-> NoFile]
    /\ pc = "notify"
    /\ check_count = 0
    /\ previous_countdowns = PyNone
    /\ countdowns = PyNone
    /\ sent = <<>>
    /\ log = <<>>
    /\ saves = <<>>
    /\ pre = [mem |-> PyNone, file |-> NoFile, ended |-> PyNone]
    /\ ended = PyNone
    /\ monitors = <<>>
    /\ previous_state = <<>>
    /\ idx = 0
    /\ ai = 0
    /\ all_new_events = <<>>
    /\ result = PyNone
    /\ fetched = <<>>
    /\ new_ids = <<>>
    /\ checked = <<>>
    /\ failures = <<>>
    /\ ts_last = PyNone
    /\ last_done = <<>>

\* one call of send_sms that has returned to its caller
Sends(by, outcome, r) ==
    /\ pc = "notify"
    /\ Len(sent) < MaxSends
    /\ sent' = Append(sent, SmsRecord(by, "message", outcome, r))
    /\ log' = log \o r.logs
    /\ UNCHANGED <<env, twilio_enabled, disk, pc, check_count, saves, pre>>
    /\ UNCHANGED uVars
    /\ UNCHANGED cdVars

\* unified_monitor.py: await monitor.send_sms(message)
DoSendSms(outcome) ==
    Sends("unified_monitor", outcome, SendSms(TwilioClient(twilio_enabled), outcome))

\* countdown_monitor.py: await self.send_sms(message)
DoCdSendSms(outcome) ==
    Sends("countdown_monitor", outcome, CdSendSms(twilio_enabled, outcome))

NotifierNext ==
    \/ \E so \in SendOutcomes : DoSendSms(so)
    \/ \E so \in SendOutcomes : DoCdSendSms(so)

SpecNotifier == NotifierInit /\ [][NotifierNext]_vars

(***************************************************************************)
(* Claims about the countdown_monitor.py loop, read at the end of a cycle  *)
(* (pc = "sleep"): pre is the state the cycle began with, countdowns what  *)
(* it fetched, sent / saves / log what it did.                             *)
(***************************************************************************)
CycleDone == pc = "sleep"
FoundSome == countdowns.t = "list" /\ Len(countdowns.v) > 0
FoundNothing == countdowns.t = "list" /\ Len(countdowns.v) = 0
FoundHash == PyStr(JsonDumpsSorted(countdowns))
StoredHashBefore == DictGet(pre.mem, <<"hash">>, PyNone)
SaveFailed == \E i \in 1..Len(log) : log[i] = "Error saving state"
\* the file holds exactly the document doc
Persisted(doc) ==
    /\ disk[CdFile].exists
    /\ JsonLoads(disk[CdFile].text) = ParseOk(doc, Len(disk[CdFile].text) + 1)

\* C5: a non-empty fetch whose serialization differs from the stored hash
\* (also when the stored state is {}) makes the cycle attempt exactly one
\* send, the "new countdown" alert, replace the in-memory state by
\* {hash, timestamp, count} of the fetched list and hand that state to
\* save_state once, which puts it in the file unless the write itself fails.
C5_NewCountdownAlertsAndSaves ==
    (CycleDone /\ FoundSome /\ FoundHash # StoredHashBefore) =>
        /\ Len(sent) = 1
        /\ sent[1].kind = "new_countdown"
        /\ previous_countdowns =
             PyDict(<< <<<<"hash">>, FoundHash>>,
                       <<<<"timestamp">>, Isoformat(check_count)>>,
                       <<<<"count">>, PyInt(Len(countdowns.v))>> >>)
        /\ saves = <<previous_countdowns>>
        /\ ~SaveFailed => Persisted(previous_countdowns)

\* Scenario 1: state {} before, two elements fetched, alert sent and state in
\* the file
C5_Witness ==
    /\ CycleDone /\ FoundSome /\ Len(countdowns.v) = 2
    /\ pre.mem = EmptyDict
    /\ Len(sent) = 1 /\ sent[1].ret
    /\ Persisted(previous_countdowns)

\* C6: a non-empty fetch whose serialization equals the stored hash sends
\* nothing and leaves the in-memory state and the state file as they were.
C6_SameCountdownIsSilent ==
    (CycleDone /\ FoundSome /\ FoundHash = StoredHashBefore) =>
        /\ sent = <<>>
        /\ saves = <<>>
        /\ previous_countdowns = pre.mem
        /\ disk[CdFile] = pre.file

C6_Witness ==
    /\ CycleDone /\ FoundSome /\ FoundHash = StoredHashBefore
    /\ check_count = 2 /\ twilio_enabled
    /\ previous_countdowns = pre.mem

\* C7: an empty fetch while a non-empty hash is stored sends the "ended"
\* message (not the "new countdown" one) and resets the state to {} in
\* memory and, through save_state, in the file; an empty fetch with no hash
\* stored sends nothing and writes nothing; and the countdown whose hash an
\* "ended" transition dropped alerts as new when it is fetched again.
C7_EndedResetsState ==
    /\ (CycleDone /\ FoundNothing /\ Truthy(StoredHashBefore)) =>
          /\ Len(sent) = 1
          /\ sent[1].kind = "ended"
          /\ previous_countdowns = EmptyDict
          /\ saves = <<EmptyDict>>
          /\ ~SaveFailed => Persisted(EmptyDict)
    /\ (CycleDone /\ FoundNothing /\ ~Truthy(StoredHashBefore)) =>
          /\ sent = <<>>
          /\ saves = <<>>
          /\ previous_countdowns = pre.mem
          /\ disk[CdFile] = pre.file
    /\ (CycleDone /\ FoundSome /\ pre.ended = FoundHash) =>
          /\ Len(sent) = 1
          /\ sent[1].kind = "new_countdown"

\* the ended countdown is back in the cycle after its "ended" message
C7_Witness ==
    /\ CycleDone /\ FoundSome /\ pre.ended = FoundHash
    /\ pre.mem = EmptyDict /\ pre.file = FileOf(JsonDumpsIndent(EmptyDict))
    /\ Len(sent) = 1 /\ sent[1].kind = "new_countdown"


(***************************************************************************)
(* Claims about UnifiedMonitorSystem.run and its monitors.  After a check  *)
(* (pc = "alert") and after the alert (pc = "next") the variables describe *)
(* the monitor just processed: pre is its state when the check began,      *)
(* fetched what it received, new_ids the ids behind all_new_events, sent / *)
(* saves / log what was done for it.                                       *)
(***************************************************************************)
Checked == pc \in {"alert", "next"}
CheckedEvents == Checked /\ IsEventMonitor(Cur)
InEvents == pc \in {"check", "alert", "next"} /\ IsEventMonitor(Cur)
Logged(text) == <<Cur.name, text>> \in SeqToSet(log)
NewEvents == DictGet(result, <<"new_events">>, PyList(<<>>)).v
\* the ids reported as new for an artist, and the positions of its records
NewIdsFor(artist) == {new_ids[i][2] : i \in {j \in 1..Len(new_ids) : new_ids[j][1] = artist}}
RecordsFor(artist) == {i \in 1..Len(new_ids) : new_ids[i][1] = artist}
\* the ids of the k-th response and the ids stored for its artist before
CurrentIds(k) == SeqToSet(IdsOf(fetched[k].events))
PreviousIds(k) == PreviousEventIds(pre.mem, Cur.artists[k])

\* C1: when the Taylor Swift check of a cycle succeeds with the result of the
\* cycle before, the monitor does not alert again: no message of that monitor
\* goes to the provider in the cycle.
C1_NoRealertOnSameResult ==
    (pc = "next" /\ Cur.name = TS /\ result # PyNone /\ result = ts_last) =>
        \A i \in 1..Len(sent) : ~sent[i].contacted

\* C2: in a check of an event monitor no id that was stored for an artist
\* when the check began is among the ids reported as new for that artist,
\* and the returned new_events are the records of exactly those ids.
C2_KnownIdNeverNew ==
    InEvents =>
        /\ \A i \in 1..Len(new_ids) :
              new_ids[i][2] \notin PreviousEventIds(pre.mem, new_ids[i][1])
        /\ Len(all_new_events) = Len(new_ids)
        /\ (Checked /\ Truthy(result)) =>
              /\ NewEvents = all_new_events
              /\ \A i \in 1..Len(new_ids) :
                    DictGet(NewEvents[i], <<"artist">>, PyNone) = PyStr(new_ids[i][1])

C2_Witness ==
    /\ CheckedEvents
    /\ Truthy(result)
    /\ \E k \in 1..Len(fetched) : \E j \in 1..Len(fetched[k].events) :
          /\ EventId(fetched[k].events[j]) \in PreviousIds(k)
          /\ fetched[k].events[j] = FeedEvent(Cur.name, EventId(fetched[k].events[j]), PyNone)
          /\ NewIdsFor(Cur.artists[k]) # {}

\* C3: for every artist answered with status 200 the ids reported as new are
\* the set current_ids - previous_ids with one record per new id, and the
\* count the check returns is the number of new ids over all artists.
C3_NewIsTheDifference ==
    CheckedEvents =>
        /\ \A k \in 1..Len(fetched) : fetched[k].kind = "200" =>
              /\ NewIdsFor(Cur.artists[k]) = CurrentIds(k) \ PreviousIds(k)
              /\ Cardinality(RecordsFor(Cur.artists[k]))
                    = Cardinality(CurrentIds(k) \ PreviousIds(k))
        /\ Truthy(result) =>
              /\ DictGet(result, <<"count">>, PyNone)
                    = PyInt(Cardinality(SeqToSet(new_ids)))
              /\ Len(NewEvents) = Cardinality(SeqToSet(new_ids))

C8_NoEventsNoAlert ==
    InEvents =>
        /\ \A k \in 1..Len(fetched) :
              (fetched[k].kind = "200" /\ fetched[k].events = <<>>) =>
                  /\ ai > k
                  /\ NewIdsFor(Cur.artists[k]) = {}
        /\ Logged("Error checking") => fetched[Len(fetched)].kind = "raises"
        /\ (Checked /\ new_ids = <<>>) => result = PyNone
        /\ (pc = "next" /\ result = PyNone) => (sent = <<>> /\ Logged("No new data"))

C8_Witness ==
    /\ pc = "next"
    /\ IsEventMonitor(Cur)
    /\ Len(fetched) = Len(Cur.artists)
    /\ \A k \in 1..Len(fetched) : fetched[k].kind = "200" /\ fetched[k].events = <<>>
    /\ result = PyNone
    /\ sent = <<>>

(***************************************************************************)
(* Claims about the StateStore and the Notifier on their own.              *)
(***************************************************************************)
LastCall == log[Len(log)]
SavesOf(name) == {j \in 1..Len(log) : log[j].op = "save" /\ log[j].name = name}
LastSaveOf(name) == log[CHOOSE j \in SavesOf(name) : \A i \in SavesOf(name) : i <= j]

\* C9: a load_state of a fresh instance that reads the file returns the
\* document of the last save_state of that monitor, when that save completed
\* without an I/O failure, whatever was saved before it.
C9_SaveLoadRoundTrip ==
    (pc = "store" /\ Len(log) > 0 /\ LastCall.op = "load" /\ LastCall.outcome = "ok"
        /\ SavesOf(LastCall.name) # {} /\ LastSaveOf(LastCall.name).outcome = "ok") =>
        result = LastSaveOf(LastCall.name).doc

C9_Witness ==
    /\ pc = "store"
    /\ Len(log) = 3
    /\ log[1].op = "save" /\ log[2].op = "save" /\ log[3].op = "load"
    /\ log[1].name = CdFile /\ log[2].name = CdFile /\ log[3].name = CdFile
    /\ log[1].outcome = "ok" /\ log[2].outcome = "ok" /\ log[3].outcome = "ok"
    /\ log[1].doc # log[2].doc
    /\ HasKey(log[2].doc, <<"hash">>)
    /\ result = log[2].doc

\* C10: a send_sms call returns to its caller with a boolean; with a
\* credential absent it returns false and the provider is not contacted; with
\* all four present the provider is contacted and the value returned is true
\* exactly when the provider call succeeded.
C10_SendSmsReturnsBool ==
    pc = "notify" =>
        \A i \in 1..Len(sent) :
            /\ ~sent[i].raised
            /\ sent[i].ret \in BOOLEAN
            /\ (\E c \in Creds : ~env[c]) => (~sent[i].ret /\ ~sent[i].contacted)
            /\ (\A c \in Creds : env[c]) =>
                  /\ sent[i].contacted
                  /\ sent[i].ret <=> (sent[i].outcome = "ok")

C10_Witness ==
    /\ pc = "notify"
    /\ \A c \in Creds : env[c]
    /\ Len(sent) = 2
    /\ sent[1].by = "unified_monitor" /\ sent[1].outcome = "raises" /\ ~sent[1].ret
    /\ sent[2].by = "countdown_monitor" /\ sent[2].outcome = "ok" /\ sent[2].ret

(***************************************************************************)
(* The failure policy of the StateStore, read in the countdown_monitor.py  *)
(* loop: after initialize() (pc = "fetch", no check yet) and at the end of *)
(* a cycle.                                                                *)
(***************************************************************************)
Loaded == pc = "fetch" /\ check_count = 0
Unparsable(file) == ~file.exists \/ ~JsonLoads(file.text).ok

\* C11: load_state returns {} when there is no state file or the file cannot
\* be read or parsed, and a document in every case; a save_state that fails
\* is only logged, the in-memory state is then the new state and the state
\* file has the content it had before.
C11_StoreFailurePolicy ==
    /\ Loaded =>
          /\ Unparsable(disk[CdFile]) => previous_countdowns = EmptyDict
          /\ previous_countdowns \in {EmptyDict, JsonLoads(disk[CdFile].text).val}
    /\ (CycleDone /\ SaveFailed) =>
          /\ saves = <<previous_countdowns>>
          /\ previous_countdowns # pre.mem
          /\ disk[CdFile] = pre.file

(***************************************************************************)
(* The ways run() ends.                                                    *)
(***************************************************************************)
Interrupted == pc \in {"stopped", "cancelled"}
NotifierReady == twilio_enabled /\ Len(monitors) > 0
SentOfKind(kind) == {i \in 1..Len(sent) : sent[i].kind = kind}

\* C12: when the operator interrupts the process anywhere in the polling
\* loop, run() makes one last "stopped" send attempt, provided Twilio is
\* enabled and there is a monitor, and ends.
C12_InterruptSendsStopped ==
    (Interrupted /\ NotifierReady) =>
        /\ Len(sent) > 0
        /\ sent[Len(sent)].kind = "stopped"

\* C13: run() ends in its `except Exception` handler only from the sleep
\* between two cycles, never from a monitor's check, format_alert or send;
\* the handler makes exactly one "error" send attempt when Twilio is enabled
\* and there is a monitor, and none otherwise; after it nothing happens.
C13_FatalErrorPath ==
    [][/\ pc = "failed" => pc' = "failed"
       /\ (pc # "failed" /\ pc' = "failed") =>
             /\ pc = "sleep"
             /\ Cardinality(SentOfKind("error")') = IF NotifierReady THEN 1 ELSE 0
             /\ Len(sent') = Len(sent) + IF NotifierReady THEN 1 ELSE 0
             /\ check_count' = check_count /\ checked' = checked]_vars

\* the sleep raised in a cycle in which a monitor had failed on its own
C13_Witness ==
    /\ pc = "failed"
    /\ NotifierReady
    /\ failures # <<>>
    /\ Cardinality(SentOfKind("error")) = 1
    /\ sent[Len(sent)].contacted

(***************************************************************************)
(* The order of a cycle of run().                                          *)
(***************************************************************************)
ConfigOrder == <<TS, BIT, TM>>
PlaceOf(name) == CHOOSE k \in 1..Len(ConfigOrder) : ConfigOrder[k] = name
NamesUpTo(n) == [k \in 1..n |-> monitors[k].name]
InConfigOrder ==
    \A i, j \in 1..Len(monitors) :
        i < j => PlaceOf(monitors[i].name) < PlaceOf(monitors[j].name)

\* C14: in a cycle of run() the monitors are taken one at a time in the
\* order taylor_swift, bandsintown, ticketmaster: a check starts only at the
\* head of the cycle (the first monitor) or when the monitor before it is
\* through its check, alert and save; the checks that have returned are
\* those of the monitors up to the current one, each once; the sleep starts
\* only from the last monitor, with every monitor checked once.
C14_OneMonitorAtATime ==
    /\ [](/\ InConfigOrder
          /\ pc = "check" => checked = NamesUpTo(idx - 1)
          /\ pc \in {"alert", "next"} => checked = NamesUpTo(idx)
          /\ pc = "sleep" => checked = NamesUpTo(Len(monitors)))
    /\ [][/\ (pc' = "check" /\ (pc # "check" \/ idx' # idx)) =>
                \/ pc = "loop" /\ idx' = 1
                \/ pc = "next" /\ idx' = idx + 1
          /\ (pc' = "sleep" /\ pc # "sleep") =>
                pc = "next" /\ idx = Len(monitors)
          /\ pc \in {"check", "alert"} => idx' = idx]_vars

\* the end of a cycle of all three monitors, one of which had failed
C14_Witness ==
    /\ pc = "sleep"
    /\ checked = <<TS, BIT, TM>>
    /\ BIT \in SeqToSet(failures)

(***************************************************************************)
(* countdown_monitor.py: the order of the result list.                     *)
(***************************************************************************)
Reordered == Reorderings(countdowns.v) \ {countdowns.v}
StoredIsReordered ==
    \E q \in Reordered : StoredHashBefore = PyStr(JsonDumpsSorted(PyList(q)))

\* C15: the hash of a countdown result differs from the hash of the same
\* elements in any other order; a result that is a reordering of the stored
\* one is a new countdown: one alert is sent and its hash is stored.
C15_ReorderedIsNew ==
    (CycleDone /\ FoundSome) =>
        /\ \A q \in Reordered : JsonDumpsSorted(PyList(q)) # JsonDumpsSorted(countdowns)
        /\ StoredIsReordered =>
              /\ Len(sent) = 1
              /\ sent[1].kind = "new_countdown"
              /\ DictGet(previous_countdowns, <<"hash">>, PyNone) = FoundHash
              /\ saves = <<previous_countdowns>>

\* the stored hash was that of the same elements in another order
C15_Witness ==
    /\ CycleDone
    /\ FoundSome
    /\ StoredIsReordered
    /\ Len(sent) = 1
    /\ sent[1].contacted

(***************************************************************************)
(* The event monitors: the ids kept per artist.                            *)
(***************************************************************************)
\* check() has returned after the last artist (it did not raise)
CheckDone == CheckedEvents /\ ai > Len(Cur.artists)
Answered(k) == fetched[k].kind = "200"
StoredIds(k) ==
    DictGet(DictGet(previous_state[Cur.name], Cur.artists[k], EmptyDict),
            <<"event_ids">>, PyNone)
\* the ids the last check that ran to its end fetched for the k-th artist
DoneKnown(k) == HasKey(last_done[Cur.name], Cur.artists[k])
DoneIds(k) == SeqToSet(DictGet(last_done[Cur.name], Cur.artists[k], PyList(<<>>)).v)

\* C16: when a check of an event monitor has gone through all its artists,
\* the event_ids kept for every artist that was answered are the whole id
\* list of the answer, new events or not; an id of the answer that the last
\* check that ran to its end did not fetch for the artist is reported as new,
\* and an id it did fetch is not.
C16_StoredIdsAreLastFetched ==
    CheckDone =>
        \A k \in 1..Len(Cur.artists) : Answered(k) =>
            /\ StoredIds(k) = PyList(IdsOf(fetched[k].events))
            /\ DoneKnown(k) =>
                  \A id \in CurrentIds(k) :
                      id \in NewIdsFor(Cur.artists[k]) <=> id \notin DoneIds(k)

(***************************************************************************)
(* The event monitors: when the state file is written and read.            *)
(***************************************************************************)
\* the step is the save_state of a check that found new events
SavingStep ==
    /\ pc = "check"
    /\ IsEventMonitor(Cur)
    /\ ai > Len(Cur.artists)
    /\ Len(all_new_events) > 0
    /\ saves = <<>>
    /\ saves' = <<previous_state[Cur.name]>>
    /\ \A n \in FileNames \ {Cur.name} : disk'[n] = disk[n]

\* the step is the load_state of a monitor that has not been initialized
LoadingStep ==
    /\ pc = "init"
    /\ idx <= Len(monitors)
    /\ previous_state[Cur.name] = PyNone
    /\ idx' = idx + 1

\* C17: an event monitor calls save_state, and its state file changes, only
\* at the end of a check that found a new event, once per check; a check
\* without new events or one that failed, and all other steps of run(), leave
\* the file as it was; the file is read once per monitor, before the first
\* cycle, and not again.
C17_WritesOnlyOnNewEvents ==
    /\ [](/\ Len(saves) <= 1
          /\ (CheckedEvents /\ ~Truthy(result)) =>
                (saves = <<>> /\ disk[Cur.name] = pre.file)
          /\ CheckDone => (saves # <<>> <=> Len(all_new_events) > 0))
    /\ [][/\ (disk' # disk \/ (saves' # saves /\ saves' # <<>>)) => SavingStep
          /\ (pc = "init" /\ idx <= Len(monitors)) => LoadingStep
          /\ pc # "init" => pc' # "init"]_vars

\* a second check refreshed the ids in memory and found nothing new: the
\* file still holds what the first check saved
C17_Witness ==
    /\ CheckDone
    /\ check_count = 2
    /\ ~Truthy(result)
    /\ disk[Cur.name] = pre.file
    /\ pre.file # NoFile
    /\ \E k \in 1..Len(Cur.artists) :
          /\ Answered(k)
          /\ StoredIds(k) # DictGet(DictGet(pre.mem, Cur.artists[k], EmptyDict),
                                    <<"event_ids">>, PyNone)

(***************************************************************************)
(* The event monitors: an artist answered with another status than 200.    *)
(***************************************************************************)
Skipped(k) == fetched[k].kind = "non200"
NoneRaised == \A j \in 1..Len(fetched) : fetched[j].kind # "raises"

AlertAttempted == \E i \in 1..Len(sent) : sent[i].kind \notin {"startup", "stopped", "error"}

\* C19: a monitor's state document is given to save_state only after the
\* send of the alert for the change it records has been attempted, so that
\* wherever the run stops, no saved change is without its alert attempt.
C19_AlertBeforeSave ==
    saves # <<>> => AlertAttempted

(***************************************************************************)
(* No retry of an alert.                                                   *)
(***************************************************************************)
NothingNewFetched ==
    \A k \in 1..Len(fetched) : Answered(k) => CurrentIds(k) \subseteq PreviousIds(k)

\* C20: a cycle makes at most one send per monitor; whatever the send
\* returned, the state kept in memory afterwards is that of the data just
\* fetched (the id list of every answered artist; the hash of the countdown
\* list), and a cycle that fetches what is already kept sends nothing.
C20_NoRetry ==
    /\ Len(sent) <= 1
    /\ (~IsCountdownScript /\ pc = "next" /\ IsEventMonitor(Cur)) =>
          /\ \A k \in 1..Len(fetched) :
                Answered(k) => StoredIds(k) = PyList(IdsOf(fetched[k].events))
          /\ NothingNewFetched => sent = <<>>
    /\ (IsCountdownScript /\ CycleDone /\ FoundSome) =>
          /\ DictGet(previous_countdowns, <<"hash">>, PyNone) = FoundHash
          /\ FoundHash = StoredHashBefore => sent = <<>>

\* Twilio is not configured; the first cycle found event e1 and saved it,
\* the second fetches e1 again and sends nothing
C20_Witness ==
    /\ ~IsCountdownScript
    /\ pc = "next"
    /\ IsEventMonitor(Cur)
    /\ check_count = 2
    /\ ~twilio_enabled
    /\ pre.file = FileOf(JsonDumpsIndent(PyDict(<< <<Artist1,
                      ArtistState(<<FirstId>>, 1)>> >>)))
    /\ Answered(1)
    /\ IdsOf(fetched[1].events) = <<FirstId>>
    /\ sent = <<>>

(***************************************************************************)
(* A fetch that fails.                                                     *)
(***************************************************************************)
FetchFailed == countdowns = PyNone
CheckRaised ==
    /\ fetched # <<>>
    /\ IF Cur.name = TS THEN ~fetched[1].ok ELSE fetched[Len(fetched)].kind = "raises"

\* C21: a fetch that fails is no data for the cycle.  In the
\* countdown_monitor.py loop it sends nothing, is not taken for the end of
\* the countdown, and leaves the state in memory and in the file as they
\* were, so the same countdown fetched afterwards is still the stored one;
\* in the unified system the check logs the error and returns None, nothing
\* is sent and the guard of run() is not reached.
C21_FetchErrorIsNoData ==
    /\ (IsCountdownScript /\ CycleDone /\ FetchFailed) =>
          /\ sent = <<>>
          /\ saves = <<>>
          /\ previous_countdowns = pre.mem
          /\ disk[CdFile] = pre.file
          /\ ended = pre.ended
          /\ "Error checking website" \in SeqToSet(log)
    /\ (~IsCountdownScript /\ pc = "next" /\ CheckRaised) =>
          /\ result = PyNone
          /\ sent = <<>>
          /\ saves = <<>>
          /\ disk[Cur.name] = pre.file
          /\ Logged("Error checking")
          /\ Logged("No new data")
          /\ ~Logged("Check failed")

\* the second fetch fails after the first cycle stored a countdown: the
\* stored hash is still there and nothing was sent
C21_Witness ==
    /\ IsCountdownScript
    /\ CycleDone
    /\ FetchFailed
    /\ check_count = 2
    /\ DictGet(previous_countdowns, <<"timestamp">>, PyNone) = Isoformat(1)
    /\ Truthy(DictGet(previous_countdowns, <<"hash">>, PyNone))
    /\ sent = <<>>

(***************************************************************************)
(* Where an interrupt finds run().                                         *)
(***************************************************************************)
\* the for loop stands at a monitor whose check has not returned
MidCheck == idx <= Len(monitors) /\ Len(checked) < idx
\* the check has returned, neither branch of `if result:` has been taken
MidAlert ==
    /\ idx <= Len(monitors)
    /\ Len(checked) = idx
    /\ ~Logged("No new data")
    /\ ~Logged("New data detected!")

\* C22: an interrupt ends run() only between the processing of one monitor
\* and the next sleep: never while a monitor's check is fetching, and never
\* between its check and its alert.
C22_InterruptOnlyBetweenMonitors ==
    Interrupted => (~MidCheck /\ ~MidAlert)

(***************************************************************************)
(* The event monitors: ids kept and ids reported.                          *)
(***************************************************************************)
\* the ids kept for the k-th artist that were not kept when the check began
EnteredIds(k) == SeqToSet(StoredIds(k).v) \ PreviousIds(k)

\* C23: when a check of an event monitor has returned, every id that entered
\* the ids kept for an artist during the check is in the result the check
\* returned, as a new event of that artist.
C23_SeenOnlyIfReported ==
    CheckedEvents =>
        \A k \in 1..Len(fetched) : Answered(k) =>
            \A id \in EnteredIds(k) :
                /\ Truthy(result)
                /\ id \in NewIdsFor(Cur.artists[k])

(***************************************************************************)
(* The event monitors: the state file against the state in memory.         *)
(***************************************************************************)
\* the ids the state file holds for an artist; none when it cannot be loaded
PersistedIds(name, artist) == PreviousEventIds(LoadState(disk[name], "ok"), artist)
MemoryIds(name, artist) == PreviousEventIds(previous_state[name], artist)

\* C24: in runs without a raising request and without a failing save, when
\* a check has returned, the ids in the state file of the monitor
\* include, artist by artist, the ids kept in memory; and in a check begun
\* from a reloaded file no id is reported as new that the last check before
\* the restart had kept.
C24_FileCoversMemory ==
    /\ (pc = "alert" /\ IsEventMonitor(Cur)) =>
          \A k \in 1..Len(Cur.artists) :
              MemoryIds(Cur.name, Cur.artists[k]) \subseteq PersistedIds(Cur.name, Cur.artists[k])
    /\ InEvents =>
          \A i \in 1..Len(new_ids) :
              new_ids[i][2] \notin
                  SeqToSet(DictGet(last_done[Cur.name], new_ids[i][1], PyList(<<>>)).v)

\* after a restart: the first check had refreshed the second artist in
\* memory without saving, the memory was then reloaded from the older file,
\* and e1, kept before the restart and fetched again, is not reported
C24_Witness ==
    /\ CheckDone
    /\ check_count = 2
    /\ Len(Cur.artists) = 2
    /\ HasKey(last_done[Cur.name], Artist2)
    /\ ~HasKey(pre.mem, Artist2)
    /\ FirstId \in DoneIds(1)
    /\ Answered(1)
    /\ FirstId \in CurrentIds(1)
    /\ FirstId \notin NewIdsFor(Artist1)

Checking(i) == pc = "check" /\ idx = i
CheckReturned(i) == pc = "alert" /\ idx = i
FailedBefore(i) == \E j \in 1..(i - 1) : monitors[j].name \in SeqToSet(failures)

\* C25: with no interrupt and no error of the sleep, and every awaited call
\* coming back, run() never ends: it begins a new cycle again and again, and
\* in every run each configured monitor has its check started and returned
\* infinitely often, also when an earlier monitor fails in every cycle.
C25_EveryMonitorCheckedForever ==
    /\ []<>(pc = "loop")
    /\ \A i \in 1..Len(ConfigOrder) :
          /\ []<>(i <= Len(monitors) => Checking(i))
          /\ []<>(i <= Len(monitors) => CheckReturned(i))

\* in a cycle that is not the first, the check of a monitor has returned
\* after an earlier monitor failed in the same cycle
C25_Witness ==
    /\ check_count = MaxCycles
    /\ \E i \in 2..Len(monitors) : CheckReturned(i) /\ FailedBefore(i)
====
